---- MODULE Spec2Model ----
(***************************************************************************)
(* Model of server/models.py: the zoo schema (zookeepers, enclosures,      *)
(* animals), the constraint naming convention handed to MetaData, and the  *)
(* serialize_rules that SerializerMixin.to_dict() applies.                 *)
(*                                                                         *)
(* The specifications share the variables:                                 *)
(*   Spec          rows are created, updated and deleted through the ORM   *)
(*                 session under the declared constraints, on a database   *)
(*                 that checks the declared foreign keys or one that does  *)
(*                 not (server/models.py names no engine);                 *)
(*   SpecEnforced  the same, on a database that checks them;               *)
(*   SpecSerialize to_dict() is applied to objects of a stored graph;      *)
(*   SpecNaming    the schema's constraints are named by the convention.   *)
(***************************************************************************)
EXTENDS Integers, Sequences, FiniteSets, TLC

VARIABLES zookeepers, enclosures, animals, result, out, ddl, foreign_keys

vars == <<zookeepers, enclosures, animals, result, out, ddl, foreign_keys>>
tables == <<zookeepers, enclosures, animals>>

(***************************************************************************)
(* Bounds of the model.                                                    *)
(***************************************************************************)
MaxZookeepers == 2
MaxEnclosures == 1
MaxAnimals == 2
MaxRows == 3
RecursionLimit == 6

(***************************************************************************)
(* Column values.  NULL is NullId for an integer column (primary keys      *)
(* start at 1) and Null for every other column.                            *)
(***************************************************************************)
NullId == 0
Null == "<NULL>"

ZookeeperIds == 1..MaxZookeepers
EnclosureIds == 1..MaxEnclosures
AnimalIds == 1..MaxAnimals

ZookeeperNames == {Null, "Alex"}
Birthdays == {"1990-01-01"}
Environments == {"Savanna"}
Visitors == {Null, "True"}
AnimalNames == {Null, "Leo"}
SpeciesNames == {"Lion"}

(***************************************************************************)
(* The schema: tables, columns, unique columns and foreign keys.           *)
(***************************************************************************)
Zookeeper_tablename == "zookeepers"
Enclosure_tablename == "enclosures"
Animal_tablename == "animals"

Zookeeper_columns == {"id", "name", "birthday"}
Enclosure_columns == {"id", "environment", "open_to_visitors"}
Animal_columns == {"id", "name", "species", "zookeeper_id", "enclosure_id"}

\* unique=True is dropped from Animal.name
UniqueColumns_AnimalNameNotUnique ==
    [zookeepers |-> {"name"}, enclosures |-> {}, animals |-> {}]

\* the columns declared unique=True, per table
UniqueColumns ==
    [zookeepers |-> {"name"}, enclosures |-> {}, animals |-> {"name"}]

\* enclosure_id declared with the ForeignKey of zookeeper_id
Animal_foreign_keys_BothToZookeepers ==
    [zookeeper_id |-> "zookeepers", enclosure_id |-> "zookeepers"]

\* db.ForeignKey(...) of each Animal column: column -> referred table
Animal_foreign_keys ==
    [zookeeper_id |-> "zookeepers", enclosure_id |-> "enclosures"]

\* The variable foreign_keys is whether the database the session is bound to
\* checks the declared foreign keys at write time.  server/models.py binds db
\* to no engine: an engine that checks them refuses a dangling reference, one
\* that does not (SQLite with its default PRAGMA foreign_keys = OFF) stores it.
TableIds(t) ==
    IF t = Zookeeper_tablename THEN DOMAIN zookeepers
    ELSE IF t = Enclosure_tablename THEN DOMAIN enclosures
    ELSE DOMAIN animals

\* Two SQL values collide under a UNIQUE constraint only when neither is NULL.
UniqueClash(a, b) == a # Null /\ b # Null /\ a = b

\* some row of `rows` other than `self` holds `name` in its unique column
NameTaken(t, rows, self, name) ==
    /\ "name" \in UniqueColumns[t]
    /\ \E i \in DOMAIN rows : i # self /\ UniqueClash(rows[i].name, name)

\* the foreign key columns of an animal row that reference no existing row
Dangling(row) ==
    {c \in DOMAIN Animal_foreign_keys :
        row[c] # NullId /\ row[c] \notin TableIds(Animal_foreign_keys[c])}

Ok == "ok"
UniqueViolation == "IntegrityError: UNIQUE constraint failed"
ForeignKeyViolation == "IntegrityError: FOREIGN KEY constraint failed"

\* The outcome of the last session operation: the table it addressed, whether
\* it was an INSERT, an UPDATE or a DELETE, its status, and the ids of the
\* child rows a DELETE de-associated.
Idle == [table |-> "none", kind |-> "none", status |-> Ok, deassociated |-> {}]
Inserted(t, status) ==
    [table |-> t, kind |-> "insert", status |-> status, deassociated |-> {}]
Updated(t, status) ==
    [table |-> t, kind |-> "update", status |-> status, deassociated |-> {}]
Deleted(t, children) ==
    [table |-> t, kind |-> "delete", status |-> Ok, deassociated |-> children]
NoOutput == [t |-> "none"]

\* the primary key of a row inserted without one: the largest id in use plus one
NewId(rows) ==
    IF DOMAIN rows = {} THEN 1
    ELSE (CHOOSE m \in DOMAIN rows : \A i \in DOMAIN rows : i <= m) + 1

\* the number of rows the three tables hold (at most MaxRows in the model)
Stored ==
    Cardinality(DOMAIN zookeepers) + Cardinality(DOMAIN enclosures)
        + Cardinality(DOMAIN animals)

\* f with key k removed
Without(f, k) == [i \in DOMAIN f \ {k} |-> f[i]]
\* f with key k bound to v
With(f, k, v) == [i \in DOMAIN f \cup {k} |-> IF i = k THEN v ELSE f[i]]

(***************************************************************************)
(* Session operations on Zookeeper.                                        *)
(***************************************************************************)
CreateZookeeper(name, birthday) ==
    /\ result = Idle
    /\ IF NameTaken(Zookeeper_tablename, zookeepers, NullId, name)
       THEN /\ result' = Inserted(Zookeeper_tablename, UniqueViolation)
            /\ UNCHANGED zookeepers
       ELSE /\ result' = Inserted(Zookeeper_tablename, Ok)
            /\ NewId(zookeepers) \in ZookeeperIds /\ Stored < MaxRows
            /\ zookeepers' = With(zookeepers, NewId(zookeepers),
                                  [name |-> name, birthday |-> birthday])
    /\ UNCHANGED <<enclosures, animals, out, ddl, foreign_keys>>

UpdateZookeeper(id, name) ==
    /\ result = Idle
    /\ id \in DOMAIN zookeepers
    /\ IF NameTaken(Zookeeper_tablename, zookeepers, id, name)
       THEN /\ result' = Updated(Zookeeper_tablename, UniqueViolation)
            /\ UNCHANGED zookeepers
       ELSE /\ result' = Updated(Zookeeper_tablename, Ok)
            /\ zookeepers' = [zookeepers EXCEPT ![id].name = name]
    /\ UNCHANGED <<enclosures, animals, out, ddl, foreign_keys>>

\* the children keep their reference to the deleted parent
Deassociate_KeepReference(rows, col, id) == rows

\* relationship('Animal', ...) with the default cascade: deleting the parent
\* de-associates its children by setting their foreign key to NULL, so no row
\* references the parent when its DELETE is emitted
Deassociate(rows, col, id) ==
    [i \in DOMAIN rows |->
        IF rows[i][col] = id THEN [rows[i] EXCEPT ![col] = NullId] ELSE rows[i]]

\* the rows whose column `col` references `id`
Children(rows, col, id) == {i \in DOMAIN rows : rows[i][col] = id}

DeleteZookeeper(id) ==
    /\ result = Idle
    /\ id \in DOMAIN zookeepers
    /\ zookeepers' = Without(zookeepers, id)
    /\ animals' = Deassociate(animals, "zookeeper_id", id)
    /\ result' = Deleted(Zookeeper_tablename, Children(animals, "zookeeper_id", id))
    /\ UNCHANGED <<enclosures, out, ddl, foreign_keys>>

(***************************************************************************)
(* Session operations on Enclosure.                                        *)
(***************************************************************************)
CreateEnclosure(environment, open) ==
    /\ result = Idle
    /\ NewId(enclosures) \in EnclosureIds /\ Stored < MaxRows
    /\ enclosures' = With(enclosures, NewId(enclosures),
                          [environment |-> environment, open_to_visitors |-> open])
    /\ result' = Inserted(Enclosure_tablename, Ok)
    /\ UNCHANGED <<zookeepers, animals, out, ddl, foreign_keys>>

UpdateEnclosure(id, environment, open) ==
    /\ result = Idle
    /\ id \in DOMAIN enclosures
    /\ enclosures' = [enclosures EXCEPT ![id] =
                         [environment |-> environment, open_to_visitors |-> open]]
    /\ result' = Updated(Enclosure_tablename, Ok)
    /\ UNCHANGED <<zookeepers, animals, out, ddl, foreign_keys>>

DeleteEnclosure(id) ==
    /\ result = Idle
    /\ id \in DOMAIN enclosures
    /\ enclosures' = Without(enclosures, id)
    /\ animals' = Deassociate(animals, "enclosure_id", id)
    /\ result' = Deleted(Enclosure_tablename, Children(animals, "enclosure_id", id))
    /\ UNCHANGED <<zookeepers, out, ddl, foreign_keys>>

(***************************************************************************)
(* Session operations on Animal.                                           *)
(***************************************************************************)
\* the outcome of writing `row` as animal `id`: the UNIQUE index is checked as
\* the row is written, the foreign keys (where checked) at the end of the
\* statement
AnimalWriteStatus(id, row) ==
    IF NameTaken(Animal_tablename, animals, id, row.name) THEN UniqueViolation
    ELSE IF foreign_keys /\ Dangling(row) # {} THEN ForeignKeyViolation
    ELSE Ok

CreateAnimal(name, species, zookeeper_id, enclosure_id) ==
    /\ result = Idle
    /\ LET row == [name |-> name, species |-> species,
                   zookeeper_id |-> zookeeper_id, enclosure_id |-> enclosure_id]
           status == AnimalWriteStatus(NullId, row)
       IN  /\ result' = Inserted(Animal_tablename, status)
           /\ IF status = Ok
              THEN /\ NewId(animals) \in AnimalIds /\ Stored < MaxRows
                   /\ animals' = With(animals, NewId(animals), row)
              ELSE UNCHANGED animals
    /\ UNCHANGED <<zookeepers, enclosures, out, ddl, foreign_keys>>

\* the outcome of assigning `value` to column `col` of animal `id`
UpdateAnimal(id, col, value) ==
    /\ result = Idle
    /\ id \in DOMAIN animals
    /\ LET row == [animals[id] EXCEPT ![col] = value]
           status == AnimalWriteStatus(id, row)
       IN  /\ result' = Updated(Animal_tablename, status)
           /\ animals' = IF status = Ok THEN [animals EXCEPT ![id] = row] ELSE animals
    /\ UNCHANGED <<zookeepers, enclosures, out, ddl, foreign_keys>>

DeleteAnimal(id) ==
    /\ result = Idle
    /\ id \in DOMAIN animals
    /\ animals' = Without(animals, id)
    /\ result' = Deleted(Animal_tablename, {})
    /\ UNCHANGED <<zookeepers, enclosures, out, ddl, foreign_keys>>

EmptyTable == [i \in {} |-> Null]

Init ==
    /\ zookeepers = EmptyTable
    /\ enclosures = EmptyTable
    /\ animals = EmptyTable
    /\ result = Idle
    /\ out = NoOutput
    /\ ddl = {}
    /\ foreign_keys \in BOOLEAN

\* the database checks the declared foreign keys
InitEnforced == Init /\ foreign_keys

\* The caller reads the outcome of the operation (and rolls the session back
\* after an IntegrityError); the session then takes the next operation
\* (result = Idle guards every operation).
Respond ==
    /\ result # Idle
    /\ result' = Idle
    /\ UNCHANGED <<zookeepers, enclosures, animals, out, ddl, foreign_keys>>

Next ==
    \/ \E n \in ZookeeperNames, b \in Birthdays : CreateZookeeper(n, b)
    \/ \E id \in ZookeeperIds, n \in ZookeeperNames : UpdateZookeeper(id, n)
    \/ \E id \in ZookeeperIds : DeleteZookeeper(id)
    \/ \E e \in Environments, o \in Visitors : CreateEnclosure(e, o)
    \/ \E id \in EnclosureIds, e \in Environments, o \in Visitors :
          UpdateEnclosure(id, e, o)
    \/ \E id \in EnclosureIds : DeleteEnclosure(id)
    \/ \E n \in AnimalNames, s \in SpeciesNames,
          z \in ZookeeperIds \cup {NullId}, e \in EnclosureIds \cup {NullId} :
          CreateAnimal(n, s, z, e)
    \/ \E id \in AnimalIds, n \in AnimalNames : UpdateAnimal(id, "name", n)
    \/ \E id \in AnimalIds, z \in ZookeeperIds \cup {NullId} :
          UpdateAnimal(id, "zookeeper_id", z)
    \/ \E id \in AnimalIds, e \in EnclosureIds \cup {NullId} :
          UpdateAnimal(id, "enclosure_id", e)
    \/ \E id \in AnimalIds : DeleteAnimal(id)
    \/ Respond

Spec == Init /\ [][Next]_vars

SpecEnforced == InitEnforced /\ [][Next]_vars

(***************************************************************************)
(* SerializerMixin.to_dict() under the classes' serialize_rules.           *)
(*                                                                         *)
(* A rule '-a.b' is the path <<"a", "b">>.  The schema of a serializer is  *)
(* the set of negative rules that apply below the object it serializes.    *)
(* Values: None, a scalar, a dict (key -> value), a list of values, or the *)
(* RecursionError raised when the nesting exceeds the interpreter's limit. *)
(***************************************************************************)
None == [t |-> "none"]
Scalar(x) == [t |-> "scalar", v |-> x]
Dict(f) == [t |-> "dict", v |-> f]
List(q) == [t |-> "list", v |-> q]
RecursionError == [t |-> "error"]

\* Zookeeper excludes the whole relationship
Zookeeper_serialize_rules_NoAnimals == {<<"animals">>}
\* Zookeeper declares no rule
Zookeeper_serialize_rules_Empty == {}

Zookeeper_serialize_rules == {<<"animals", "zookeeper">>}

\* Enclosure declared with Zookeeper's rule
Enclosure_serialize_rules_CopiedFromZookeeper == {<<"animals", "zookeeper">>}

Enclosure_serialize_rules == {<<"animals", "enclosure">>}

\* Animal declares no rule
Animal_serialize_rules_Empty == {}
\* Animal declares only the zookeeper rule
Animal_serialize_rules_ZookeeperOnly == {<<"zookeeper", "animals">>}

Animal_serialize_rules == {<<"zookeeper", "animals">>, <<"enclosure", "animals">>}

serialize_rules(cls) ==
    IF cls = "Zookeeper" THEN Zookeeper_serialize_rules
    ELSE IF cls = "Enclosure" THEN Enclosure_serialize_rules
    ELSE Animal_serialize_rules

Zookeeper_relationships == {"animals"}
Enclosure_relationships == {"animals"}
Animal_relationships == {"enclosure", "zookeeper"}

\* the mapped attributes of a class: its columns and its relationships
serializable_keys(cls) ==
    IF cls = "Zookeeper" THEN Zookeeper_columns \cup Zookeeper_relationships
    ELSE IF cls = "Enclosure" THEN Enclosure_columns \cup Enclosure_relationships
    ELSE Animal_columns \cup Animal_relationships

\* the row of object <<cls, id>>
Row(cls, id) ==
    IF cls = "Zookeeper" THEN zookeepers[id]
    ELSE IF cls = "Enclosure" THEN enclosures[id]
    ELSE animals[id]

\* the ids of S in ascending order
RECURSIVE Ascending(_)
Ascending(S) ==
    IF S = {} THEN <<>>
    ELSE LET m == CHOOSE x \in S : \A y \in S : x <= y
         IN  <<m>> \o Ascending(S \ {m})

\* a key is serialized unless a rule of the schema excludes exactly it
is_included(schema, key) == <<key>> \notin schema

\* the schema below `key`: the rules through `key`, with `key` stripped
fork(schema, key) ==
    {Tail(r) : r \in {x \in schema : Len(x) > 1 /\ Head(x) = key}}

\* whether the value of column `key` is NULL (every column but the primary
\* key is nullable; db.Integer foreign key columns hold ids)
IsNull(key, value) ==
    IF key \in {"zookeeper_id", "enclosure_id"} THEN value = NullId
    ELSE value = Null

RECURSIVE serialize_model(_, _, _, _)
\* the value of attribute `key` of object <<cls, id>> under `schema`
serialize_attr(cls, id, key, schema, depth) ==
    IF key = "id" THEN Scalar(id)
    ELSE IF cls = "Animal" /\ key = "zookeeper"
    THEN IF animals[id].zookeeper_id \in DOMAIN zookeepers
         THEN serialize_model("Zookeeper", animals[id].zookeeper_id, schema, depth)
         ELSE None
    ELSE IF cls = "Animal" /\ key = "enclosure"
    THEN IF animals[id].enclosure_id \in DOMAIN enclosures
         THEN serialize_model("Enclosure", animals[id].enclosure_id, schema, depth)
         ELSE None
    ELSE IF key = "animals"
    THEN LET col == IF cls = "Zookeeper" THEN "zookeeper_id" ELSE "enclosure_id"
             ids == Ascending(Children(animals, col, id))
         IN  List([i \in 1..Len(ids) |->
                      serialize_model("Animal", ids[i], schema, depth)])
    ELSE IF IsNull(key, Row(cls, id)[key]) THEN None
    ELSE Scalar(Row(cls, id)[key])

\* Serializer.serialize_model: the class's rules extend the schema, every
\* included key is serialized by a serializer forked for that key
serialize_model(cls, id, schema, depth) ==
    IF depth > RecursionLimit THEN RecursionError
    ELSE LET rules == schema \cup serialize_rules(cls)
             keys == {k \in serializable_keys(cls) : is_included(rules, k)}
         IN  Dict([k \in keys |->
                     serialize_attr(cls, id, k, fork(rules, k), depth + 1)])

\* the exception escapes every enclosing call
RECURSIVE Raises(_)
Raises(value) ==
    \/ value.t = "error"
    \/ value.t = "dict" /\ \E k \in DOMAIN value.v : Raises(value.v[k])
    \/ value.t = "list" /\ \E i \in DOMAIN value.v : Raises(value.v[i])

to_dict(cls, id) ==
    LET value == serialize_model(cls, id, {}, 0)
    IN  IF Raises(value) THEN RecursionError ELSE value

ToDict(cls, id) ==
    /\ id \in TableIds(IF cls = "Zookeeper" THEN Zookeeper_tablename
                       ELSE IF cls = "Enclosure" THEN Enclosure_tablename
                       ELSE Animal_tablename)
    /\ out' = [cls |-> cls, id |-> id, value |-> to_dict(cls, id)]
    /\ UNCHANGED <<zookeepers, enclosures, animals, result, ddl, foreign_keys>>

\* the tables with at most the bounded number of rows
TablesOver(ids, rowset) == UNION {[S -> rowset] : S \in SUBSET ids}

\* Object graphs that the session operations produce: names unique; a
\* reference may be unset, the id of a row, or (on a database that does not
\* check the foreign keys) the id of no row.
InitGraph ==
    /\ zookeepers \in
          {z \in TablesOver(ZookeeperIds,
                            [name : ZookeeperNames, birthday : Birthdays]) :
              \A i, j \in DOMAIN z : i # j => ~UniqueClash(z[i].name, z[j].name)}
    /\ enclosures \in
          TablesOver(EnclosureIds,
                     [environment : Environments, open_to_visitors : Visitors])
    /\ animals \in
          {a \in TablesOver(AnimalIds,
                            [name : AnimalNames, species : SpeciesNames,
                             zookeeper_id : ZookeeperIds \cup {NullId},
                             enclosure_id : EnclosureIds \cup {NullId}]) :
              \A i, j \in DOMAIN a : i # j => ~UniqueClash(a[i].name, a[j].name)}
    /\ Stored <= MaxRows
    /\ foreign_keys \in BOOLEAN
    /\ foreign_keys => \A i \in DOMAIN animals : Dangling(animals[i]) = {}
    /\ result = Idle
    /\ out = NoOutput
    /\ ddl = {}

NextSerialize ==
    \/ \E id \in ZookeeperIds : ToDict("Zookeeper", id)
    \/ \E id \in EnclosureIds : ToDict("Enclosure", id)
    \/ \E id \in AnimalIds : ToDict("Animal", id)

SpecSerialize == InitGraph /\ [][NextSerialize]_vars

(***************************************************************************)
(* MetaData(naming_convention=convention): the name of a constraint that   *)
(* is created without one is its kind's template with every %(token)s      *)
(* replaced by the token's value for that constraint.                      *)
(***************************************************************************)
Lit(text) == [lit |-> text]
Token(key) == [key |-> key]

\* the unique template names the column only
convention_UniqueWithoutTable ==
    [ix |-> <<Lit("ix_"), Token("column_0_label")>>,
     uq |-> <<Lit("uq_"), Token("column_0_name")>>,
     ck |-> <<Lit("ck_"), Token("table_name"), Lit("_"), Token("constraint_name")>>,
     fk |-> <<Lit("fk_"), Token("table_name"), Lit("_"), Token("column_0_name"),
              Lit("_"), Token("referred_table_name")>>,
     pk |-> <<Lit("pk_"), Token("table_name")>>]

convention ==
    [ix |-> <<Lit("ix_"), Token("column_0_label")>>,
     uq |-> <<Lit("uq_"), Token("table_name"), Lit("_"), Token("column_0_name")>>,
     ck |-> <<Lit("ck_"), Token("table_name"), Lit("_"), Token("constraint_name")>>,
     fk |-> <<Lit("fk_"), Token("table_name"), Lit("_"), Token("column_0_name"),
              Lit("_"), Token("referred_table_name")>>,
     pk |-> <<Lit("pk_"), Token("table_name")>>]

TableNames == {Zookeeper_tablename, Enclosure_tablename, Animal_tablename}

ColumnsOf(t) ==
    IF t = Zookeeper_tablename THEN Zookeeper_columns
    ELSE IF t = Enclosure_tablename THEN Enclosure_columns
    ELSE Animal_columns

\* the column declared primary_key=True in every table
PrimaryKeyColumn == "id"

\* labels under which a check constraint may be declared
CheckLabels == {"name_not_empty"}

Constraint(kind, t, c, ref, label) ==
    [kind |-> kind, table |-> t, column |-> c, referred_table |-> ref,
     constraint_name |-> label]

\* the constraints the three classes declare
SchemaConstraints ==
    {Constraint("pk", t, PrimaryKeyColumn, Null, Null) : t \in TableNames}
    \cup UNION {{Constraint("uq", t, c, Null, Null) : c \in UniqueColumns[t]} :
                   t \in TableNames}
    \cup {Constraint("fk", Animal_tablename, c, Animal_foreign_keys[c], Null) :
             c \in DOMAIN Animal_foreign_keys}

\* every constraint and index that can be declared on a column of the schema
AllConstraints ==
    UNION {UNION {
        {Constraint("ix", t, c, Null, Null), Constraint("uq", t, c, Null, Null),
         Constraint("pk", t, c, Null, Null)}
        \cup {Constraint("fk", t, c, ref, Null) : ref \in TableNames}
        \cup {Constraint("ck", t, Null, Null, l) : l \in CheckLabels}
        : c \in ColumnsOf(t)} : t \in TableNames}

\* The token values MetaData computes for constraint c.  The label of a
\* column is its name qualified by its table (Column.label: <table>_<column>).
Tokens(c) ==
    [table_name |-> c.table,
     column_0_name |-> c.column,
     column_0_label |-> c.table \o "_" \o c.column,
     referred_table_name |-> c.referred_table,
     constraint_name |-> c.constraint_name]

\* template % tokens: every %(key)s replaced by tokens[key]
RECURSIVE Format(_, _)
Format(template, tokens) ==
    IF template = <<>> THEN ""
    ELSE LET part == Head(template)
         IN  (IF "lit" \in DOMAIN part THEN part.lit ELSE tokens[part.key])
             \o Format(Tail(template), tokens)

\* the name the convention gives a constraint of `kind` with these token values
ConventionName(kind, tokens) == Format(convention[kind], tokens)

\* a declared constraint of the schema is created and named
CreateConstraint(c) ==
    /\ c \notin {d.constraint : d \in ddl}
    /\ ddl' = ddl \cup {[constraint |-> c, name |-> ConventionName(c.kind, Tokens(c))]}
    /\ UNCHANGED <<zookeepers, enclosures, animals, result, out, foreign_keys>>

\* a constraint or index on a column of the schema is named
NameConstraint(c) ==
    /\ out' = [constraint |-> c, name |-> ConventionName(c.kind, Tokens(c))]
    /\ UNCHANGED <<zookeepers, enclosures, animals, result, ddl, foreign_keys>>

NextNaming ==
    \/ \E c \in SchemaConstraints : CreateConstraint(c)
    \/ \E c \in AllConstraints : NameConstraint(c)

SpecNaming == Init /\ [][NextNaming]_vars

(***************************************************************************)
(* Properties of the naming convention (checked under SpecNaming).         *)
(***************************************************************************)
\* the name the documented pattern of its kind gives constraint c
DocumentedName(c) ==
    IF c.kind = "uq" THEN "uq_" \o c.table \o "_" \o c.column
    ELSE IF c.kind = "ck" THEN "ck_" \o c.table \o "_" \o c.constraint_name
    ELSE IF c.kind = "fk"
    THEN "fk_" \o c.table \o "_" \o c.column \o "_" \o c.referred_table
    ELSE IF c.kind = "pk" THEN "pk_" \o c.table
    ELSE "ix_" \o c.column

SchemaNames ==
    {"uq_zookeepers_name", "uq_animals_name",
     "fk_animals_zookeeper_id_zookeepers", "fk_animals_enclosure_id_enclosures",
     "pk_zookeepers", "pk_enclosures", "pk_animals"}

\* C6: a unique constraint is named uq_<table>_<column>, a check constraint
\* ck_<table>_<label>, a foreign key fk_<table>_<column>_<referred table> and
\* a primary key pk_<table>; the schema's constraints get the seven names of
\* SchemaNames; a name depends on the constraint alone, not on what was
\* created before it.
C6_ConstraintNames ==
    /\ (out # NoOutput /\ out.constraint.kind # "ix")
          => out.name = DocumentedName(out.constraint)
    /\ \A d \in ddl : d.name = DocumentedName(d.constraint)
    /\ {d.name : d \in ddl} \subseteq SchemaNames
    /\ {d.constraint : d \in ddl} = SchemaConstraints
          => {d.name : d \in ddl} = SchemaNames

\* every constraint of the schema was created, and a unique constraint named
C6_Witness ==
    /\ {d.constraint : d \in ddl} = SchemaConstraints
    /\ out # NoOutput
    /\ out.constraint.kind = "uq"

\* C7: an index on any column of any table is named ix_<column>, the column's
\* name alone (ix_id for a column named id).
C7_IndexNamedByColumn ==
    (out # NoOutput /\ out.constraint.kind = "ix")
        => out.name = DocumentedName(out.constraint)

(***************************************************************************)
(* Properties of to_dict() (checked under SpecSerialize).                  *)
(***************************************************************************)
\* to_dict() was called on an object of class cls
Called(cls) == out # NoOutput /\ out.cls = cls
\* ... and returned a dict
Returned(cls) == Called(cls) /\ out.value.t = "dict"

\* value is a list of dicts, one per id of `ids`, none with key `excluded`
ListsExactly(value, ids, excluded) ==
    /\ value.t = "list"
    /\ Len(value.v) = Cardinality(ids)
    /\ \A i \in DOMAIN value.v :
          /\ value.v[i].t = "dict"
          /\ excluded \notin DOMAIN value.v[i].v
    /\ {value.v[i].v.id.v : i \in DOMAIN value.v} = ids

\* C1: serializing a Zookeeper with N animals as the root yields an `animals`
\* list of exactly N entries, one per owned Animal, none with a `zookeeper` key.
C1_ZookeeperAnimals ==
    Called("Zookeeper") =>
        /\ out.value.t = "dict"
        /\ "animals" \in DOMAIN out.value.v
        /\ ListsExactly(out.value.v.animals,
                        Children(animals, "zookeeper_id", out.id), "zookeeper")

\* a Zookeeper owning two or more animals was serialized
C1_Witness ==
    /\ Returned("Zookeeper")
    /\ Cardinality(Children(animals, "zookeeper_id", out.id)) >= 2

\* C2: serializing an Enclosure with N animals as the root yields an `animals`
\* list of exactly N entries, one per contained Animal, none with an
\* `enclosure` key.
C2_EnclosureAnimals ==
    Called("Enclosure") =>
        /\ out.value.t = "dict"
        /\ "animals" \in DOMAIN out.value.v
        /\ ListsExactly(out.value.v.animals,
                        Children(animals, "enclosure_id", out.id), "enclosure")

\* an Enclosure holding two or more animals was serialized
C2_Witness ==
    /\ Returned("Enclosure")
    /\ Cardinality(Children(animals, "enclosure_id", out.id)) >= 2

\* value[key] is a nested mapping without an `animals` key
NestedWithoutAnimals(value, key) ==
    /\ key \in DOMAIN value.v
    /\ value.v[key].t = "dict"
    /\ "animals" \notin DOMAIN value.v[key].v

\* C3: serializing an Animal as the root yields, when it has a zookeeper, a
\* nested `zookeeper` mapping without an `animals` key and, when it has an
\* enclosure, a nested `enclosure` mapping without an `animals` key.
C3_AnimalParents ==
    Called("Animal") =>
        /\ out.value.t = "dict"
        /\ animals[out.id].zookeeper_id \in DOMAIN zookeepers
              => NestedWithoutAnimals(out.value, "zookeeper")
        /\ animals[out.id].enclosure_id \in DOMAIN enclosures
              => NestedWithoutAnimals(out.value, "enclosure")

\* an Animal with a zookeeper and an enclosure was serialized
C3_Witness ==
    /\ Returned("Animal")
    /\ animals[out.id].zookeeper_id \in DOMAIN zookeepers
    /\ animals[out.id].enclosure_id \in DOMAIN enclosures

\* every dict of the list `value` has exactly the keys `keys`
EachHasKeys(value, keys) ==
    /\ value.t = "list"
    /\ \A i \in DOMAIN value.v :
          value.v[i].t = "dict" /\ DOMAIN value.v[i].v = keys

\* value[key] is None or a dict with exactly the keys `keys`
NoneOrHasKeys(value, key, keys) ==
    \/ value.v[key].t = "none"
    \/ value.v[key].t = "dict" /\ DOMAIN value.v[key].v = keys

\* in every dict of the list `value`, [key] is None or a dict with keys `keys`
EachNoneOrHasKeys(value, key, keys) ==
    \A i \in DOMAIN value.v : NoneOrHasKeys(value.v[i], key, keys)

\* C4: a rule removes a field only from a nested entity, never from the root:
\* a root Animal keeps `zookeeper` and `enclosure`, a root Zookeeper or
\* Enclosure keeps `animals`, and a nested entity keeps every field that no
\* rule excludes (an animal inside a Zookeeper keeps its `enclosure`, one
\* inside an Enclosure its `zookeeper`, a parent inside an Animal its columns).
C4_OnlyNestedFieldRemoved ==
    /\ Called("Zookeeper") =>
          /\ out.value.t = "dict"
          /\ DOMAIN out.value.v = Zookeeper_columns \cup {"animals"}
          /\ EachHasKeys(out.value.v.animals, Animal_columns \cup {"enclosure"})
          /\ EachNoneOrHasKeys(out.value.v.animals, "enclosure", Enclosure_columns)
    /\ Called("Enclosure") =>
          /\ out.value.t = "dict"
          /\ DOMAIN out.value.v = Enclosure_columns \cup {"animals"}
          /\ EachHasKeys(out.value.v.animals, Animal_columns \cup {"zookeeper"})
          /\ EachNoneOrHasKeys(out.value.v.animals, "zookeeper", Zookeeper_columns)
    /\ Called("Animal") =>
          /\ out.value.t = "dict"
          /\ DOMAIN out.value.v = Animal_columns \cup {"zookeeper", "enclosure"}
          /\ NoneOrHasKeys(out.value, "zookeeper", Zookeeper_columns)
          /\ NoneOrHasKeys(out.value, "enclosure", Enclosure_columns)

\* a Zookeeper was serialized whose animal entry carries a nested enclosure
C4_Witness ==
    /\ Returned("Zookeeper")
    /\ \E i \in DOMAIN out.value.v.animals.v :
          /\ "enclosure" \in DOMAIN out.value.v.animals.v[i].v
          /\ out.value.v.animals.v[i].v.enclosure.t = "dict"

\* C5: for every object graph and every root, serialization under the
\* declared rules terminates with a value: no relationship cycle is followed
\* until the interpreter's recursion limit.
C5_Terminates ==
    out # NoOutput => out.value.t = "dict" /\ ~Raises(out.value)

\* an object on a relationship cycle was serialized: an Enclosure holding an
\* animal whose zookeeper owns animals
C5_Witness ==
    /\ Returned("Enclosure")
    /\ \E a \in Children(animals, "enclosure_id", out.id) :
          /\ animals[a].zookeeper_id \in DOMAIN zookeepers
          /\ Children(animals, "zookeeper_id", animals[a].zookeeper_id) # {}

(***************************************************************************)
(* Properties of the session operations (checked under Spec).              *)
(***************************************************************************)
\* two rows hold the same name (a row whose name is NULL has no name)
ShareName(rows, i, j) ==
    i # j /\ rows[i].name # Null /\ rows[i].name = rows[j].name

NamesUnique ==
    /\ \A i, j \in DOMAIN zookeepers : ~ShareName(zookeepers, i, j)
    /\ \A i, j \in DOMAIN animals : ~ShareName(animals, i, j)

DuplicateCreateFails ==
    /\ \A n \in ZookeeperNames \ {Null}, b \in Birthdays :
          ((\E i \in DOMAIN zookeepers : zookeepers[i].name = n)
              /\ CreateZookeeper(n, b))
             => (result'.status = UniqueViolation /\ UNCHANGED tables)
    /\ \A n \in AnimalNames \ {Null}, s \in SpeciesNames,
          z \in ZookeeperIds \cup {NullId}, e \in EnclosureIds \cup {NullId} :
          ((\E i \in DOMAIN animals : animals[i].name = n)
              /\ CreateAnimal(n, s, z, e))
             => (result'.status = UniqueViolation /\ UNCHANGED tables)

\* C8: in every state reached by creates, updates (and deletes) no two
\* Zookeepers share a name and no two Animals share a name, and creating a
\* Zookeeper or Animal under the name of an existing one fails with a
\* uniqueness error and leaves every table unchanged.
C8_UniqueNames == []NamesUnique /\ [][DuplicateCreateFails]_vars

\* the create of a Zookeeper was refused for its name while two Zookeepers
\* (one of that name) and a named Animal are stored
C8_Witness ==
    /\ result = Inserted(Zookeeper_tablename, UniqueViolation)
    /\ Cardinality(DOMAIN zookeepers) = 2
    /\ \E i \in DOMAIN zookeepers : zookeepers[i].name # Null
    /\ \E i \in DOMAIN animals : animals[i].name # Null

\* an id that is set and is not the id of a row of `rows`
Nonexistent(id, rows) == id # NullId /\ id \notin DOMAIN rows

CreateAnimalChecksReferences ==
    \A n \in AnimalNames, s \in SpeciesNames,
       z \in ZookeeperIds \cup {NullId}, e \in EnclosureIds \cup {NullId} :
       LET clash == n # Null /\ \E i \in DOMAIN animals : animals[i].name = n
           dangling == Nonexistent(z, zookeepers) \/ Nonexistent(e, enclosures)
           unset == z = NullId /\ e = NullId
       IN  /\ (dangling /\ CreateAnimal(n, s, z, e))
                 => /\ UNCHANGED tables
                    /\ result'.status # Ok
                    /\ ~clash => result'.status = ForeignKeyViolation
           /\ (unset /\ ~clash /\ CreateAnimal(n, s, z, e))
                 => /\ result'.status = Ok
                    /\ \E id \in DOMAIN animals' \ DOMAIN animals :
                          /\ animals'[id].zookeeper_id = NullId
                          /\ animals'[id].enclosure_id = NullId
                          /\ animals'[id].name = n

\* C9: creating an Animal whose zookeeper_id or enclosure_id is set to the id
\* of no existing row fails with a referential-integrity error and stores no
\* Animal; creating one with both references unset (and a free name) succeeds
\* and stores it.
C9_CreateChecksReferences == [][CreateAnimalChecksReferences]_vars

\* the create of an Animal that references a row that does not exist was refused
C9_Witness ==
    /\ foreign_keys
    /\ result = Inserted(Animal_tablename, ForeignKeyViolation)

\* C10: in every state reached by creates, updates and deletes, each Animal's
\* zookeeper_id is unset or the id of an existing Zookeeper and its
\* enclosure_id is unset or the id of an existing Enclosure.
C10_ReferencesExist ==
    \A a \in DOMAIN animals :
        /\ ~Nonexistent(animals[a].zookeeper_id, zookeepers)
        /\ ~Nonexistent(animals[a].enclosure_id, enclosures)

\* a Zookeeper that still had dependent Animals was deleted, and an Animal
\* still references an Enclosure
C10_Witness ==
    /\ result.kind = "delete"
    /\ result.table = Zookeeper_tablename
    /\ result.deassociated # {}
    /\ \E a \in DOMAIN animals : animals[a].enclosure_id \in DOMAIN enclosures

====
